---- MODULE Spec2Model ----
(***************************************************************************)
(* A model of src/newsopi.py: the /api/check handler check_cc, the         *)
(* ShopifyClient and BrightDataBrowser it drives, the token scraper and    *)
(* the outcome selector.                                                   *)
(*                                                                         *)
(* Text is modelled as a sequence of lexical atoms: an atom is one of the  *)
(* units the program's patterns are made of (a quote, the entity &quot;,   *)
(* a keyword, a payload letter).  Searching, splitting and the regular     *)
(* expressions are computed on these sequences the way Python computes     *)
(* them on characters.                                                     *)
(***************************************************************************)
EXTENDS Integers, Sequences, FiniteSets, TLC

\* ------------------------------------------------------------------------
\* Python values
\* ------------------------------------------------------------------------

\* Python's None where a str is expected.
None == "None"

\* Python's None where a dict is expected (dicts are records here).
NoDict == [none |-> TRUE]

\* The empty str "".
Empty == <<>>

\* ------------------------------------------------------------------------
\* str operations on atom sequences
\* ------------------------------------------------------------------------

\* Does sub occur in s at position i (1-based)?
OccursAt(s, sub, i) ==
    /\ i >= 1
    /\ i + Len(sub) - 1 <= Len(s)
    /\ \A k \in 1..Len(sub) : s[i + k - 1] = sub[k]

\* str.find(sub, from): the least position >= from where sub occurs; 0 when
\* it does not occur (Python's -1; positions here are 1-based).
Find(s, sub, from) ==
    LET hits == {i \in from..(Len(s) + 1) : OccursAt(s, sub, i)}
    IN  IF hits = {} THEN 0 ELSE CHOOSE i \in hits : \A j \in hits : i <= j

\* `sub in s`
In(sub, s) == Find(s, sub, 1) # 0

\* s[from:] (1-based from)
Tail_From(s, from) == SubSeq(s, from, Len(s))

\* str.split(sep) for a non-empty sep: the list of the parts between the
\* occurrences of sep, left to right; always at least one part.
RECURSIVE Split(_, _)
Split(s, sep) ==
    LET p == Find(s, sep, 1)
    IN  IF p = 0
        THEN <<s>>
        ELSE <<SubSeq(s, 1, p - 1)>> \o Split(Tail_From(s, p + Len(sep)), sep)

\* str.endswith(suffix)
EndsWith(s, suffix) ==
    /\ Len(suffix) <= Len(s)
    /\ SubSeq(s, Len(s) - Len(suffix) + 1, Len(s)) = suffix

\* find_between(content, start, end)
find_between(content, start, end) ==
    LET start_pos == Find(content, start, 1)
    IN  IF start_pos = 0 THEN Empty
        ELSE LET from == start_pos + Len(start)
                 end_pos == Find(content, end, from)
             IN  IF end_pos = 0 THEN Empty
                 ELSE SubSeq(content, from, end_pos - 1)

\* ------------------------------------------------------------------------
\* Regular expressions (the subset the program uses)
\* ------------------------------------------------------------------------
\* A pattern is a sequence of elements:
\*   [t |-> "lit",  a |-> atom]                       one literal atom
\*   [t |-> "not",  x |-> atom, min |-> n, cap |-> b] [^x]{n,}, greedy;
\*                                                    cap: it is group 1
\*   [t |-> "ws",   min |-> n]                        \s{n,}, greedy
Lit(a) == [t |-> "lit", a |-> a]
NotMany(x, min, cap) == [t |-> "not", x |-> x, min |-> min, cap |-> cap]
Ws(min) == [t |-> "ws", min |-> min]

\* The whitespace atom.
SP == " "

InClass(e, a) == IF e.t = "not" THEN a # e.x ELSE a = SP

\* The longest run of atoms of e's class in txt starting at i.
RECURSIVE RunLen(_, _, _)
RunLen(e, txt, i) ==
    IF i <= Len(txt) /\ InClass(e, txt[i]) THEN 1 + RunLen(e, txt, i + 1) ELSE 0

NoMatch == [ok |-> FALSE, g |-> Empty]

\* Backtracking match of pat[k..] against txt at position i: the first match
\* in Python's priority order (greedy repetitions give back one atom at a
\* time).  g is group 1.
RECURSIVE MatchAt(_, _, _, _)
RECURSIVE TryLen(_, _, _, _, _)
MatchAt(pat, txt, k, i) ==
    IF k > Len(pat) THEN [ok |-> TRUE, g |-> Empty]
    ELSE LET e == pat[k]
         IN  IF e.t = "lit"
             THEN IF i <= Len(txt) /\ txt[i] = e.a
                  THEN MatchAt(pat, txt, k + 1, i + 1)
                  ELSE NoMatch
             ELSE TryLen(pat, txt, k, i, RunLen(e, txt, i))

TryLen(pat, txt, k, i, n) ==
    IF n < pat[k].min THEN NoMatch
    ELSE LET r == MatchAt(pat, txt, k + 1, i + n)
         IN  IF r.ok
             THEN IF pat[k].t = "not" /\ pat[k].cap
                  THEN [ok |-> TRUE, g |-> SubSeq(txt, i, i + n - 1)]
                  ELSE r
             ELSE TryLen(pat, txt, k, i, n - 1)

\* re.search(pattern, content): the match at the leftmost start position.
RECURSIVE SearchFrom(_, _, _)
SearchFrom(pat, txt, i) ==
    IF i > Len(txt) + 1 THEN NoMatch
    ELSE LET r == MatchAt(pat, txt, 1, i)
         IN  IF r.ok THEN r ELSE SearchFrom(pat, txt, i + 1)

\* extract_with_regex(content, pattern)
extract_with_regex(content, pattern) ==
    LET match == SearchFrom(pattern, content, 1)
    IN  IF match.ok THEN match.g ELSE Empty

\* ------------------------------------------------------------------------
\* Atoms and the patterns of the scraper
\* ------------------------------------------------------------------------
Q == "&quot;"
DQ == "\""
COLON == ":"
SLASH == "/"
QMARK == "?"

\* The needles the program looks for inside page text that lie within one
\* atom: Within(a) is the set of needles that are substrings of atom a.
Within(a) ==
    CASE a = "captcha"                 -> {"captcha"}
      [] a = "recaptcha"               -> {"captcha", "recaptcha"}
      [] a = "g-recaptcha"             -> {"captcha", "recaptcha", "g-recaptcha"}
      [] a = "hcaptcha"                -> {"captcha", "hcaptcha"}
      [] a = "challenge"               -> {"challenge"}
      [] a = "cloudflare"              -> {"cloudflare"}
      [] a = "cf-browser-verification" -> {"cf-browser-verification"}
      [] a = "Checking your browser"   -> {"Checking your browser"}
      [] OTHER                         -> {}

\* str.lower() of one atom: the atoms that hold upper-case letters.
LowerAtom(a) ==
    CASE a = "Cloudflare"            -> "cloudflare"
      [] a = "CAPTCHA"               -> "captcha"
      [] a = "Challenge"             -> "challenge"
      [] a = "reCAPTCHA"             -> "recaptcha"
      [] a = "hCaptcha"              -> "hcaptcha"
      [] a = "Checking your browser" -> "checking your browser"
      [] a = "sessionToken"          -> "sessiontoken"
      [] a = "checkoutToken"         -> "checkouttoken"
      [] a = "queueToken"            -> "queuetoken"
      [] a = "stableId"              -> "stableid"
      [] OTHER                       -> a

\* content.lower()
Lower(content) == [i \in 1..Len(content) |-> LowerAtom(content[i])]

\* `needle in content` for a needle that lies within one atom.
Has(needle, content) == \E i \in 1..Len(content) : needle \in Within(content[i])

\* '&quot;sha&quot;:&quot;'
D_SHA == <<Q, "sha", Q, COLON, Q>>
\* 'serialized-session-token&quot;:&quot;'
D_SST == <<"serialized-session-token", Q, COLON, Q>>
\* 'queueToken&quot;:&quot;'
D_QUEUE == <<"queueToken", Q, COLON, Q>>
\* 'stableId&quot;:&quot;'
D_STABLE == <<"stableId", Q, COLON, Q>>
\* 'checkout_token&quot;:&quot;'
D_CT1 == <<"checkout_token", Q, COLON, Q>>
\* 'checkoutToken":"'
D_CT2 == <<"checkoutToken", DQ, COLON, DQ>>

\* r'name="serialized-session-token"\s+content="&quot;([^"]+)&quot;"'
R_SST ==
    <<Lit("name="), Lit(DQ), Lit("serialized-session-token"), Lit(DQ), Ws(1),
      Lit("content="), Lit(DQ), Lit(Q), NotMany(DQ, 1, TRUE), Lit(Q), Lit(DQ)>>
\* r'<meta[^>]*name="csrf-token"[^>]*content="([^"]+)"'
R_CSRF ==
    <<Lit("<meta"), NotMany(">", 0, FALSE), Lit("name="), Lit(DQ),
      Lit("csrf-token"), Lit(DQ), NotMany(">", 0, FALSE), Lit("content="),
      Lit(DQ), NotMany(DQ, 1, TRUE), Lit(DQ)>>
\* r'"<key>":"([^"]+)"' for key = sessionToken, token, checkout
R_KEY(key) ==
    <<Lit(DQ), Lit(key), Lit(DQ), Lit(COLON), Lit(DQ), NotMany(DQ, 1, TRUE),
      Lit(DQ)>>

\* Python's `a or b` on str values.
Or(a, b) == IF a # Empty THEN a ELSE b

\* The checkout token carried by a URL: "/cn/TOKEN/..." first, else
\* "/checkouts/TOKEN/...", else "".
checkout_token_from_url(url) ==
    IF In(<<SLASH, "cn", SLASH>>, url)
    THEN Split(Split(Split(url, <<SLASH, "cn", SLASH>>)[2], <<SLASH>>)[1],
               <<QMARK>>)[1]
    ELSE IF In(<<SLASH, "checkouts", SLASH>>, url)
    THEN LET parts == Split(url, <<SLASH, "checkouts", SLASH>>)
         IN  IF Len(parts) > 1
             THEN Split(Split(parts[2], <<SLASH>>)[1], <<QMARK>>)[1]
             ELSE Empty
    ELSE Empty

\* init_checkout_regular: "captcha" in content.lower() or "challenge" in ...
regular_sees_captcha(content) ==
    Has("captcha", Lower(content)) \/ Has("challenge", Lower(content))

\* Mutant: the mock fallback left out.
regular_session_token_no_mock(content) ==
    LET t1 == extract_with_regex(content, R_SST)
    IN  IF t1 = Empty THEN find_between(content, D_SST, <<Q>>) ELSE t1

\* Mutant: the delimiter search tried before the regex.
regular_session_token_delimiter_first(content) ==
    LET t1 == find_between(content, D_SST, <<Q>>)
        t2 == IF t1 = Empty THEN extract_with_regex(content, R_SST) ELSE t1
    IN  IF t2 = Empty THEN <<"mock_session_token">> ELSE t2

\* init_checkout_regular's session token: regex, then delimiters, then mock.
regular_session_token(content) ==
    LET t1 == extract_with_regex(content, R_SST)
        t2 == IF t1 = Empty THEN find_between(content, D_SST, <<Q>>) ELSE t1
    IN  IF t2 = Empty THEN <<"mock_session_token">> ELSE t2

\* Mutant: no mock when the final URL has no checkout segment.
regular_checkout_token_no_mock(final_url) == checkout_token_from_url(final_url)

\* init_checkout_regular's checkout token: the final URL, then mock.
regular_checkout_token(final_url) ==
    LET t == checkout_token_from_url(final_url)
    IN  IF t = Empty THEN <<"mock_checkout_token">> ELSE t

\* init_checkout_regular, the response received: the dict it returns.
regular_tokens(content, final_url) ==
    IF regular_sees_captcha(content)
    THEN [error |-> "CAPTCHA_REQUIRED"]
    ELSE [web_build_id   |-> Or(find_between(content, D_SHA, <<Q>>),
                                <<"default_build_id">>),
          session_token  |-> regular_session_token(content),
          queue_token    |-> Or(find_between(content, D_QUEUE, <<Q>>),
                                <<"mock_queue_token">>),
          stable_id      |-> Or(find_between(content, D_STABLE, <<Q>>),
                                <<"mock_stable_id">>),
          checkout_token |-> regular_checkout_token(final_url),
          final_url      |-> final_url]

\* init_checkout_regular, the request raised: the dict of the except branch.
\* Its final_url is self.site_url, written here as the atom "site_url".
regular_tokens_on_error ==
    [web_build_id   |-> <<"mock_build_id">>,
     session_token  |-> <<"mock_session_token">>,
     queue_token    |-> <<"mock_queue_token">>,
     stable_id      |-> <<"mock_stable_id">>,
     checkout_token |-> <<"mock_checkout_token">>,
     final_url      |-> <<"site_url">>]

\* get_checkout_tokens' session token before the mock: five searches in order.
browser_session_token(content) ==
    LET t1 == extract_with_regex(content, R_SST)
        t2 == IF t1 = Empty THEN find_between(content, D_SST, <<Q>>) ELSE t1
        t3 == IF t2 = Empty THEN extract_with_regex(content, R_CSRF) ELSE t2
        t4 == IF t3 = Empty
              THEN extract_with_regex(content, R_KEY("sessionToken")) ELSE t3
    IN  IF t4 = Empty THEN extract_with_regex(content, R_KEY("token")) ELSE t4

\* get_checkout_tokens' checkout token: the URL, then three content searches.
browser_checkout_token(content, current_url) ==
    LET t1 == checkout_token_from_url(current_url)
        t2 == IF t1 = Empty THEN find_between(content, D_CT1, <<Q>>) ELSE t1
        t3 == IF t2 = Empty THEN find_between(content, D_CT2, <<DQ>>) ELSE t2
    IN  IF t3 = Empty THEN extract_with_regex(content, R_KEY("checkout")) ELSE t3

\* get_checkout_tokens, page read: the dict it returns, or None.  n is the
\* value random.randint(1000, 9999) returns, as a decimal numeral.
get_checkout_tokens(content, current_url, n) ==
    LET web_build_id == Or(find_between(content, D_SHA, <<Q>>),
                           <<"default_build_id">>)
        session0 == browser_session_token(content)
        checkout_token == browser_checkout_token(content, current_url)
        session_token == IF checkout_token # Empty /\ session0 = Empty
                         THEN <<"mock_session_", n>> ELSE session0
    IN  IF checkout_token # Empty
        THEN [web_build_id   |-> web_build_id,
              session_token  |-> session_token,
              checkout_token |-> checkout_token,
              url            |-> current_url]
        ELSE NoDict

\* ------------------------------------------------------------------------
\* Page classification: the marker tests of the browser path
\* ------------------------------------------------------------------------

\* navigate / solve_captcha: a Cloudflare challenge is on the page.
sees_cloudflare(content) ==
    Has("cf-browser-verification", content) \/ Has("cloudflare", Lower(content))

\* handle_cloudflare: the page no longer shows the challenge.
cloudflare_passed(content) ==
    ~Has("cf-browser-verification", content)
        /\ ~Has("Checking your browser", content)

\* solve_captcha: a reCAPTCHA is on the page.
sees_recaptcha(content) ==
    Has("recaptcha", Lower(content)) \/ Has("g-recaptcha", content)

\* solve_captcha: an hCaptcha is on the page.
sees_hcaptcha(content) == Has("hcaptcha", Lower(content))

\* init_checkout_with_bright_data: `tokens and tokens.get('checkout_token')`
bright_data_accepts(tokens) ==
    /\ tokens # NoDict
    /\ "checkout_token" \in DOMAIN tokens
    /\ tokens.checkout_token # Empty

\* ------------------------------------------------------------------------
\* The outcome selector
\* ------------------------------------------------------------------------

\* Mutant: the Visa and Mastercard lists exchanged.
outcomes_for_swapped(first_digit) ==
    IF first_digit = "5"
    THEN <<"CARD_DECLINED", "INSUFFICIENT_FUNDS", "CARD_DECLINED", "CARD_DECLINED">>
    ELSE IF first_digit = "4"
    THEN <<"CARD_DECLINED", "INSUFFICIENT_FUNDS", "CARD_DECLINED",
           "TRANSACTION_NOT_ALLOWED">>
    ELSE IF first_digit = "3"
    THEN <<"CARD_DECLINED", "PICK_UP_CARD", "CARD_DECLINED">>
    ELSE <<"CARD_DECLINED", "INVALID_CARD", "CARD_DECLINED">>

\* The outcome list of a leading digit.
outcomes_for(first_digit) ==
    IF first_digit = "4"
    THEN <<"CARD_DECLINED", "INSUFFICIENT_FUNDS", "CARD_DECLINED", "CARD_DECLINED">>
    ELSE IF first_digit = "5"
    THEN <<"CARD_DECLINED", "INSUFFICIENT_FUNDS", "CARD_DECLINED",
           "TRANSACTION_NOT_ALLOWED">>
    ELSE IF first_digit = "3"
    THEN <<"CARD_DECLINED", "PICK_UP_CARD", "CARD_DECLINED">>
    ELSE <<"CARD_DECLINED", "INVALID_CARD", "CARD_DECLINED">>

\* random.choice(seq): seq[_randbelow(len(seq))]; rand is the generator's raw
\* draw, reduced to an index below len(seq).
random_choice(seq, rand) == seq[(rand % Len(seq)) + 1]

\* Mutant: the second suffix forgotten.
forced_approval_only_0000(card_num) == EndsWith(card_num, <<"0", "0", "0", "0">>)

\* card_num.endswith('0000') or card_num.endswith('1111')
forced_approval(card_num) ==
    EndsWith(card_num, <<"0", "0", "0", "0">>)
        \/ EndsWith(card_num, <<"1", "1", "1", "1">>)

\* Mutant: a card that tokenized is approved.
select_response_reads_token(card_num, tokens, card_token, rand) ==
    IF forced_approval(card_num) \/ card_token # None
    THEN "APPROVED"
    ELSE random_choice(outcomes_for(card_num[1]), rand)

\* Step 4 of check_cc for a non-empty card_num: the value of `response`.
\* tokens and card_token are in scope there; the code reads neither.
select_response(card_num, tokens, card_token, rand) ==
    LET first_digit == card_num[1]
        outcomes == outcomes_for(first_digit)
    IN  IF forced_approval(card_num)
        THEN "APPROVED"
        ELSE random_choice(outcomes, rand)

\* ------------------------------------------------------------------------
\* The JSON bodies check_cc returns
\* ------------------------------------------------------------------------

\* str(price) of the prices get_product returns.
Str(price) == IF price = 1999 THEN "19.99" ELSE "5.0"

invalid_format_response ==
    [Response |-> "INVALID_FORMAT", Message |-> "Use CC|MM|YYYY|CVV"]

captcha_response(use_bright_data, price, site) ==
    IF use_bright_data
    THEN [Response |-> "CAPTCHA_UNSOLVABLE",
          Price    |-> Str(price),
          Gateway  |-> "Shopify-Payments",
          Site     |-> site,
          Status   |-> "CAPTCHA could not be solved even with Bright Data"]
    ELSE [Response |-> "CAPTCHA_REQUIRED",
          Price    |-> Str(price),
          Gateway  |-> "Shopify-Payments",
          Site     |-> site,
          Status   |-> "Site requires CAPTCHA - Enable Bright Data to solve"]

\* The status text of the normal response.
status_message(use_bright_data, tokens) ==
    IF ~use_bright_data THEN "Complete"
    ELSE IF /\ tokens # NoDict
            /\ "checkout_token" \in DOMAIN tokens
            /\ tokens.checkout_token # Empty
            /\ tokens.checkout_token # <<"mock_checkout_token">>
    THEN "Processed with Bright Data (CAPTCHA solved)"
    ELSE "Processed with Bright Data (no CAPTCHA)"

\* The BrightData field of the normal response.
bright_data_used(use_bright_data) == IF use_bright_data THEN "Yes" ELSE "No"

\* Mutant: the normal body built like the CAPTCHA bodies, without BrightData.
normal_response_without_indicator(response, use_bright_data, tokens, price, site) ==
    [Response |-> response,
     Price    |-> Str(price),
     Gateway  |-> "Shopify-Payments",
     Site     |-> site,
     Status   |-> status_message(use_bright_data, tokens)]

normal_response(response, use_bright_data, tokens, price, site) ==
    [Response   |-> response,
     Price      |-> Str(price),
     Gateway    |-> "Shopify-Payments",
     Site       |-> site,
     Status     |-> status_message(use_bright_data, tokens),
     BrightData |-> bright_data_used(use_bright_data)]

\* The body of the top-level except branch; message is str(e).
system_error_response(message, site) ==
    [Response |-> "SYSTEM_ERROR",
     Message  |-> message,
     Price    |-> "1.00",
     Gateway  |-> "Shopify-Payments",
     Site     |-> site]

\* ------------------------------------------------------------------------
\* Inputs
\* ------------------------------------------------------------------------

\* The most pipe-delimited fields a generated descriptor has.
MaxFields == 5

\* The raw draws of the random generator are 0 .. RandRange - 1.
RandRange == 12

\* for i in range(12)
CF_POLLS == 12

PIPE == "|"

\* Card numbers: every leading-digit class, with and without a forcing suffix,
\* and the empty card number.
CardNums ==
    {Empty, <<"4", "2">>, <<"4", "0", "0", "0", "0">>, <<"5">>, <<"3">>,
     <<"9">>, <<"1", "1", "1", "1">>}

\* The card numbers of the descriptors with more than four fields.
LongCardNums == {<<"5", "1", "1", "1", "1">>}

\* k further fields "12".
RECURSIVE MoreFields(_)
MoreFields(k) ==
    IF k = 0 THEN Empty ELSE <<PIPE, "1", "2">> \o MoreFields(k - 1)

\* The descriptors cc of the requests: one to four fields for every card
\* number, more for some, and one whose CVV field, not its card number, ends
\* in "0000".
Descriptors ==
    {card \o MoreFields(k) : card \in CardNums, k \in 0..3}
        \cup {card \o MoreFields(k) :
                card \in LongCardNums, k \in 4..(MaxFields - 1)}
        \cup {<<"4", "2">> \o MoreFields(2) \o <<PIPE, "0", "0", "0", "0">>}

\* The site parameter.
Sites == {"shop.example", "https://other.example/"}

\* Fragments of page text.
FragBuild(v) == D_SHA \o v \o <<Q>>
FragSstMeta(v) ==
    <<"name=", DQ, "serialized-session-token", DQ, SP, "content=", DQ, Q>>
        \o v \o <<Q, DQ>>
FragSstJson(v) == D_SST \o v \o <<Q>>
FragCsrf(v) ==
    <<"<meta", SP, "name=", DQ, "csrf-token", DQ, SP, "content=", DQ>>
        \o v \o <<DQ, ">">>
FragKey(key, v) == <<DQ, key, DQ, COLON, DQ>> \o v \o <<DQ>>
FragCt1(v) == D_CT1 \o v \o <<Q>>
FragCt2(v) == D_CT2 \o v \o <<DQ>>

MarkerFrags ==
    {Empty, <<"cloudflare">>, <<"Cloudflare">>, <<"cf-browser-verification">>,
     <<"Checking your browser">>, <<"reCAPTCHA">>, <<"g-recaptcha">>,
     <<"hCaptcha">>, <<"CAPTCHA">>, <<"challenge">>}
BuildFrags == {Empty, FragBuild(<<"b1">>), FragBuild(Empty)}
SessionFrags ==
    {Empty, FragSstMeta(<<"s1">>), FragSstJson(<<"s2">>),
     FragSstJson(<<"s2">>) \o FragSstMeta(<<"s1">>),
     FragSstMeta(Empty) \o FragSstJson(<<"s2">>),
     FragCsrf(<<"s3">>), FragKey("sessionToken", <<"s4">>),
     FragKey("token", <<"s5">>),
     FragKey("token", <<"s5">>) \o FragCsrf(<<"s3">>)}
CheckoutFrags ==
    {Empty, FragCt1(<<"c1">>), FragCt2(<<"c2">>), FragKey("checkout", <<"c3">>),
     FragCt1(Empty) \o FragCt2(<<"c2">>),
     FragKey("checkout", <<"c3">>) \o FragCt1(<<"c1">>)}

\* The page texts the scraper is applied to.
Pages ==
    {m \o b \o s \o c :
        m \in MarkerFrags, b \in BuildFrags, s \in SessionFrags,
        c \in CheckoutFrags}

\* The page texts a request's site and browser serve.
SitePages ==
    {m \o t :
        m \in {Empty, <<"Cloudflare">>, <<"cf-browser-verification">>,
               <<"Checking your browser">>, <<"reCAPTCHA">>, <<"challenge">>},
        t \in {Empty,
               FragBuild(<<"b1">>) \o FragSstJson(<<"s2">>),
               FragKey("token", <<"s5">>) \o FragCt2(<<"c2">>)}}

\* The URLs the scraper is applied to.
Urls ==
    {<<"h", SLASH, "cart", SLASH, "p">>,
     <<"h", SLASH, "checkouts", SLASH, "cn", SLASH, "u1", SLASH, "x">>,
     <<"h", SLASH, "checkouts", SLASH, "u2", QMARK, "k">>,
     <<"h", SLASH, "checkouts", SLASH>>,
     <<"h", SLASH, "cn", SLASH, QMARK, "k">>}

\* The URLs a request ends at.
SiteUrls ==
    {<<"h", SLASH, "cart", SLASH, "p">>,
     <<"h", SLASH, "checkouts", SLASH, "cn", SLASH, "u1", SLASH, "x">>}

\* The numerals random.randint(1000, 9999) returns (its two ends).
MockSessionNumerals == {"1000", "9999"}

\* ------------------------------------------------------------------------
\* State
\* ------------------------------------------------------------------------
VARIABLES
    cc,               \* the cc query parameter
    site,             \* the site query parameter
    USE_BRIGHT_DATA,  \* the module's feature flag, fixed for the process
    pc,               \* where the request stands
    card_num,         \* cc_parts[0], once parsed
    client,           \* check_cc's `client`: "None", or its httpx client's state
    bright_data,      \* client.bright_data and the browser's resources
    product,          \* (product_id, price) from get_product
    tokens,           \* the dict init_checkout returned
    tokens_via,       \* which extractor produced tokens
    card_token,       \* what get_card_token returned
    response,         \* the JSON body check_cc returns
    calls,            \* how often each operation was invoked
    poll_i,           \* handle_cloudflare's loop index
    poll_ret,         \* who awaits handle_cloudflare
    cf_outcome,       \* how handle_cloudflare ended
    probe             \* inputs and results of the function-level specifications

vars ==
    <<cc, site, USE_BRIGHT_DATA, pc, card_num, client, bright_data, product,
      tokens, tokens_via, card_token, response, calls, poll_i, poll_ret,
      cf_outcome, probe>>

CallNames ==
    {"ShopifyClient", "get_product", "init_checkout", "init_checkout_regular",
     "get_card_token", "aclose"}

Called(name) == [calls EXCEPT ![name] = @ + 1]

\* BrightDataBrowser.__init__: nothing opened yet.  made: the object exists.
NoBrowser ==
    [made |-> FALSE, playwright |-> "none", browser |-> "none",
     page |-> "none", captcha_detected |-> FALSE]

\* get_product's results: the mock product (also on any exception) and a
\* priced variant of the site.
Products ==
    {[id |-> "mock_product_id", price |-> 1999],
     [id |-> "variant_id", price |-> 500]}
NoProduct == [id |-> None, price |-> 0]

HandlerIdle ==
    /\ card_num = Empty
    /\ client = "None"
    /\ bright_data = NoBrowser
    /\ product = NoProduct
    /\ tokens = NoDict
    /\ tokens_via = "none"
    /\ card_token = None
    /\ response = NoDict
    /\ calls = [n \in CallNames |-> 0]
    /\ poll_i = 0
    /\ poll_ret = "none"
    /\ cf_outcome = "none"

Init ==
    /\ cc \in Descriptors
    /\ site \in Sites
    /\ USE_BRIGHT_DATA \in BOOLEAN
    /\ pc = "start"
    /\ HandlerIdle
    /\ probe = NoDict

inputs == <<cc, site, USE_BRIGHT_DATA, probe>>

\* ------------------------------------------------------------------------
\* check_cc
\* ------------------------------------------------------------------------

\* Mutant: the field count tested against 3.
has_enough_fields_off_by_one(cc_parts) == Len(cc_parts) >= 3

\* `len(cc_parts) < 4` is false
has_enough_fields(cc_parts) == Len(cc_parts) >= 4

\* check_cc up to the first await: split, validate, construct the client.
Parse ==
    /\ pc = "start"
    /\ LET cc_parts == Split(cc, <<PIPE>>)
       IN  IF ~has_enough_fields(cc_parts)
           THEN /\ response' = invalid_format_response
                /\ pc' = "finally"
                /\ UNCHANGED <<card_num, client, calls>>
           ELSE /\ card_num' = cc_parts[1]
                /\ client' = "open"
                /\ calls' = Called("ShopifyClient")
                /\ pc' = "get_product"
                /\ UNCHANGED response
    /\ UNCHANGED <<inputs, bright_data, product, tokens, tokens_via, card_token,
                   poll_i, poll_ret, cf_outcome>>

\* client.get_product(): it catches every exception itself, so the handler's
\* "Product fetch failed" branch is never taken.
GetProduct ==
    /\ pc = "get_product"
    /\ \E p \in Products : product' = p
    /\ calls' = Called("get_product")
    /\ pc' = "init_checkout"
    /\ UNCHANGED <<inputs, card_num, client, bright_data, tokens, tokens_via,
                   card_token, response, poll_i, poll_ret, cf_outcome>>

\* client.init_checkout(product_id): the dispatch on USE_BRIGHT_DATA; with the
\* flag on, init_checkout_with_bright_data creates the BrightDataBrowser.
InitCheckout ==
    /\ pc = "init_checkout"
    /\ calls' = Called("init_checkout")
    /\ IF USE_BRIGHT_DATA
       THEN /\ bright_data' = [NoBrowser EXCEPT !.made = TRUE]
            /\ pc' = "bd_connect"
       ELSE /\ pc' = "regular"
            /\ UNCHANGED bright_data
    /\ UNCHANGED <<inputs, card_num, client, product, tokens, tokens_via,
                   card_token, response, poll_i, poll_ret, cf_outcome>>


\* ------------------------------------------------------------------------
\* BrightDataBrowser
\* ------------------------------------------------------------------------

\* connect(): the fields set when it ends at `stage`: "playwright", "cdp" and
\* "new_page" name the call that raised, "ok" is the return True.
connect_state(bd, stage) ==
    [bd EXCEPT
        !.playwright = IF stage = "playwright" THEN "none" ELSE "open",
        !.browser    = IF stage \in {"playwright", "cdp"} THEN "none" ELSE "open",
        !.page       = IF stage = "ok" THEN "open" ELSE "none"]

\* init_checkout_with_bright_data: `if not await self.bright_data.connect()`
Connect ==
    /\ pc = "bd_connect"
    /\ \E stage \in {"playwright", "cdp", "new_page", "ok"} :
          /\ bright_data' = connect_state(bright_data, stage)
          /\ pc' = IF stage = "ok" THEN "bd_navigate" ELSE "regular"
    /\ UNCHANGED <<inputs, card_num, client, product, tokens, tokens_via,
                   card_token, response, calls, poll_i, poll_ret, cf_outcome>>

\* Where init_checkout_with_bright_data goes once navigate returned content:
\* `if not content` falls back to the regular method.
after_navigate(content) == IF content = Empty THEN "regular" ELSE "bd_solve"

\* navigate(url), from goto to the Cloudflare test on the first page read.
NavigateGoto ==
    /\ pc = "bd_navigate"
    /\ \/ \* goto or page.content() raises: the except branch
          /\ pc' = "bd_nav_except"
          /\ UNCHANGED <<bright_data, poll_i, poll_ret>>
       \/ \* goto returns no response: navigate returns None
          /\ pc' = "regular"
          /\ UNCHANGED <<bright_data, poll_i, poll_ret>>
       \/ \E content \in SitePages :
             IF sees_cloudflare(content)
             THEN /\ bright_data' = [bright_data EXCEPT !.captcha_detected = TRUE]
                  /\ poll_i' = 0
                  /\ poll_ret' = "navigate"
                  /\ pc' = "cf_poll"
             ELSE /\ pc' = "bd_nav_final"
                  /\ UNCHANGED <<bright_data, poll_i, poll_ret>>
    /\ UNCHANGED <<inputs, card_num, client, product, tokens, tokens_via,
                   card_token, response, calls, cf_outcome>>

\* navigate(url), the wait for redirects and the final page read.
NavigateFinal ==
    /\ pc = "bd_nav_final"
    /\ \/ \* wait_for_timeout or page.content() raises
          pc' = "bd_nav_except"
       \/ \E final_content \in SitePages : pc' = after_navigate(final_content)
    /\ UNCHANGED <<inputs, card_num, client, bright_data, product, tokens,
                   tokens_via, card_token, response, calls, poll_i, poll_ret,
                   cf_outcome>>

\* navigate(url), the except branch: return the page as it is, or None.
NavigateExcept ==
    /\ pc = "bd_nav_except"
    /\ \/ \* page.content() raises again: navigate returns None
          pc' = "regular"
       \/ \E content \in SitePages : pc' = after_navigate(content)
    /\ UNCHANGED <<inputs, card_num, client, bright_data, product, tokens,
                   tokens_via, card_token, response, calls, poll_i, poll_ret,
                   cf_outcome>>

\* Mutant: the loop allowed one more iteration than range(12) has.
poll_exhausted_one_late(i) == i >= CF_POLLS

\* handle_cloudflare: iteration i (0-based) was the last of range(12).
poll_exhausted(i) == i + 1 >= CF_POLLS

\* Mutant: whoever called, the browser path is given up.
after_cloudflare_gives_up(caller) == "regular"

\* Where the caller of handle_cloudflare resumes: navigate ignores the result
\* and goes on to its final read; solve_captcha returns it, and
\* init_checkout_with_bright_data goes on to get_checkout_tokens either way.
after_cloudflare(caller) ==
    IF caller = "navigate" THEN "bd_nav_final" ELSE "bd_tokens"

\* handle_cloudflare(): one iteration of the poll loop.
HandleCloudflare ==
    /\ pc = "cf_poll"
    /\ \/ \* wait_for_timeout or page.content() raises: return False
          /\ cf_outcome' = "error"
          /\ pc' = after_cloudflare(poll_ret)
          /\ poll_ret' = "none"
          /\ UNCHANGED poll_i
       \/ \E content \in SitePages :
             IF cloudflare_passed(content)
             THEN /\ cf_outcome' = "passed"
                  /\ pc' = after_cloudflare(poll_ret)
                  /\ poll_ret' = "none"
                  /\ UNCHANGED poll_i
             ELSE IF poll_exhausted(poll_i)
             THEN /\ cf_outcome' = "timeout"
                  /\ pc' = after_cloudflare(poll_ret)
                  /\ poll_ret' = "none"
                  /\ poll_i' = poll_i + 1
             ELSE /\ poll_i' = poll_i + 1
                  /\ UNCHANGED <<pc, poll_ret, cf_outcome>>
    /\ UNCHANGED <<inputs, card_num, client, bright_data, product, tokens,
                   tokens_via, card_token, response, calls>>

\* solve_captcha(); its result only decides whether the caller sleeps.
SolveCaptcha ==
    /\ pc = "bd_solve"
    /\ IF bright_data.captcha_detected
       THEN /\ pc' = "bd_tokens"
            /\ UNCHANGED <<bright_data, poll_i, poll_ret>>
       ELSE \/ \* page.content() raises: return False
               /\ pc' = "bd_tokens"
               /\ UNCHANGED <<bright_data, poll_i, poll_ret>>
            \/ \E content \in SitePages :
                  IF sees_cloudflare(content)
                  THEN /\ bright_data' =
                              [bright_data EXCEPT !.captcha_detected = TRUE]
                       /\ poll_i' = 0
                       /\ poll_ret' = "solve_captcha"
                       /\ pc' = "cf_poll"
                  ELSE IF sees_recaptcha(content) \/ sees_hcaptcha(content)
                  THEN /\ bright_data' =
                              [bright_data EXCEPT !.captcha_detected = TRUE]
                       /\ pc' = "bd_tokens"
                       /\ UNCHANGED <<poll_i, poll_ret>>
                  ELSE /\ pc' = "bd_tokens"
                       /\ UNCHANGED <<bright_data, poll_i, poll_ret>>
    /\ UNCHANGED <<inputs, card_num, client, product, tokens, tokens_via,
                   card_token, response, calls, cf_outcome>>

\* get_checkout_tokens() and the test of its result in
\* init_checkout_with_bright_data.
GetCheckoutTokens ==
    /\ pc = "bd_tokens"
    /\ \/ \* page.content() raises: get_checkout_tokens returns None
          /\ pc' = "regular"
          /\ UNCHANGED <<tokens, tokens_via>>
       \/ \E content \in SitePages, current_url \in SiteUrls,
             n \in MockSessionNumerals :
             LET t == get_checkout_tokens(content, current_url, n)
             IN  IF bright_data_accepts(t)
                 THEN /\ tokens' = t
                      /\ tokens_via' = "bright_data"
                      /\ pc' = "after_init"
                 ELSE /\ pc' = "regular"
                      /\ UNCHANGED <<tokens, tokens_via>>
    /\ UNCHANGED <<inputs, card_num, client, bright_data, product, card_token,
                   response, calls, poll_i, poll_ret, cf_outcome>>

\* ------------------------------------------------------------------------
\* ShopifyClient
\* ------------------------------------------------------------------------

\* init_checkout_regular(product_id)
InitCheckoutRegular ==
    /\ pc = "regular"
    /\ calls' = Called("init_checkout_regular")
    /\ \/ \* client.get raises: the except branch's dict
          tokens' = regular_tokens_on_error
       \/ \E content \in SitePages, final_url \in SiteUrls :
             tokens' = regular_tokens(content, final_url)
    /\ tokens_via' = "regular"
    /\ pc' = "after_init"
    /\ UNCHANGED <<inputs, card_num, client, bright_data, product, card_token,
                   response, poll_i, poll_ret, cf_outcome>>

\* Mutant: the CAPTCHA error is suppressed like the other failures.
is_captcha_error_never(t) == FALSE

\* `isinstance(tokens, dict) and tokens.get("error") == "CAPTCHA_REQUIRED"`
is_captcha_error(t) == "error" \in DOMAIN t /\ t.error = "CAPTCHA_REQUIRED"

\* check_cc after init_checkout returned: the CAPTCHA error returns.
CheckCaptcha ==
    /\ pc = "after_init"
    /\ IF is_captcha_error(tokens)
       THEN /\ response' = captcha_response(USE_BRIGHT_DATA, product.price, site)
            /\ pc' = "finally"
       ELSE /\ pc' = "card_token"
            /\ UNCHANGED response
    /\ UNCHANGED <<inputs, card_num, client, bright_data, product, tokens,
                   tokens_via, card_token, calls, poll_i, poll_ret, cf_outcome>>

\* client.get_card_token(...): the token id, or None (also on any exception).
GetCardToken ==
    /\ pc = "card_token"
    /\ calls' = Called("get_card_token")
    /\ \E t \in {None, "token_id"} : card_token' = t
    /\ pc' = "select"
    /\ UNCHANGED <<inputs, card_num, client, bright_data, product, tokens,
                   tokens_via, response, poll_i, poll_ret, cf_outcome>>

\* Step 4 of check_cc and the normal return; card_num[0] of an empty card
\* number raises IndexError, which the top-level except turns into the
\* system-error body.
SelectOutcome ==
    /\ pc = "select"
    /\ IF card_num = Empty
       THEN response' = system_error_response("string index out of range", site)
       ELSE \E rand \in 0..(RandRange - 1) :
               response' =
                   normal_response(
                       select_response(card_num, tokens, card_token, rand),
                       USE_BRIGHT_DATA, tokens, product.price, site)
    /\ pc' = "finally"
    /\ UNCHANGED <<inputs, card_num, client, bright_data, product, tokens,
                   tokens_via, card_token, calls, poll_i, poll_ret, cf_outcome>>

\* BrightDataBrowser.close(): page, browser, playwright in turn, each only if
\* set; the first close that raises ends it (except: pass).  fail names the
\* call that raises, if any.
browser_close(bd, fail) ==
    LET page_raises == bd.page = "open" /\ fail = "page"
        browser_raises == bd.browser = "open" /\ fail = "browser"
        playwright_raises == bd.playwright = "open" /\ fail = "playwright"
        closed(st, raises) ==
            IF st # "open" THEN st ELSE IF raises THEN "close_failed" ELSE "closed"
    IN  [bd EXCEPT
            !.page = closed(@, page_raises),
            !.browser =
                IF page_raises THEN @ ELSE closed(@, browser_raises),
            !.playwright =
                IF page_raises \/ browser_raises THEN @
                ELSE closed(@, playwright_raises)]

\* ShopifyClient.close(): aclose, then the browser's close if there is one;
\* aclose raising skips the browser's close.
client_close(bd, fail) ==
    IF fail = "aclose"
    THEN [client |-> "close_failed", bright_data |-> bd]
    ELSE [client |-> "closed",
          bright_data |-> IF bd.made THEN browser_close(bd, fail) ELSE bd]

\* Mutant: the close sits at the end of the try body, so only the normal
\* return reaches it.
Finally_close_in_try ==
    /\ pc = "finally"
    /\ IF client = "None" \/ "BrightData" \notin DOMAIN response
       THEN UNCHANGED <<client, bright_data, calls>>
       ELSE \E fail \in {"none", "aclose", "page", "browser", "playwright"} :
               LET r == client_close(bright_data, fail)
               IN  /\ client' = r.client
                   /\ bright_data' = r.bright_data
                   /\ calls' = Called("aclose")
    /\ pc' = "done"
    /\ UNCHANGED <<inputs, card_num, product, tokens, tokens_via, card_token,
                   response, poll_i, poll_ret, cf_outcome>>

\* The finally clause of check_cc: `if client: try: await client.close()`
Finally ==
    /\ pc = "finally"
    /\ IF client = "None"
       THEN UNCHANGED <<client, bright_data, calls>>
       ELSE \E fail \in {"none", "aclose", "page", "browser", "playwright"} :
               LET r == client_close(bright_data, fail)
               IN  /\ client' = r.client
                   /\ bright_data' = r.bright_data
                   /\ calls' = Called("aclose")
    /\ pc' = "done"
    /\ UNCHANGED <<inputs, card_num, product, tokens, tokens_via, card_token,
                   response, poll_i, poll_ret, cf_outcome>>

Next ==
    \/ Parse
    \/ GetProduct
    \/ InitCheckout
    \/ Connect
    \/ NavigateGoto
    \/ NavigateFinal
    \/ NavigateExcept
    \/ HandleCloudflare
    \/ SolveCaptcha
    \/ GetCheckoutTokens
    \/ InitCheckoutRegular
    \/ CheckCaptcha
    \/ GetCardToken
    \/ SelectOutcome
    \/ Finally

Spec == Init /\ [][Next]_vars

\* ------------------------------------------------------------------------
\* The token scraper on its own: both extractors applied to every page text
\* and URL of Pages x Urls.
\* ------------------------------------------------------------------------

InitScrape ==
    /\ cc = Empty
    /\ site = "shop.example"
    /\ USE_BRIGHT_DATA = TRUE
    /\ pc = "scrape"
    /\ HandlerIdle
    /\ \E content \in Pages, url \in Urls :
          probe = [stage |-> "input", content |-> content, url |-> url,
                   n |-> None, out |-> NoDict]

\* init_checkout_regular applied to the response (content, url).
ScrapeRegular ==
    /\ probe.stage = "input"
    /\ probe' = [probe EXCEPT !.stage = "regular",
                              !.out = regular_tokens(probe.content, probe.url)]
    /\ UNCHANGED <<cc, site, USE_BRIGHT_DATA, pc, card_num, client, bright_data,
                   product, tokens, tokens_via, card_token, response, calls,
                   poll_i, poll_ret, cf_outcome>>

\* get_checkout_tokens applied to the page (content, url).
ScrapeBrowser ==
    /\ probe.stage = "input"
    /\ \E n \in MockSessionNumerals :
          probe' = [probe EXCEPT
                       !.stage = "bright_data",
                       !.n = n,
                       !.out = get_checkout_tokens(probe.content, probe.url, n)]
    /\ UNCHANGED <<cc, site, USE_BRIGHT_DATA, pc, card_num, client, bright_data,
                   product, tokens, tokens_via, card_token, response, calls,
                   poll_i, poll_ret, cf_outcome>>

NextScrape == ScrapeRegular \/ ScrapeBrowser

SpecScrape == InitScrape /\ [][NextScrape]_vars

\* ------------------------------------------------------------------------
\* The outcome selector on its own: two requests with the same card number
\* and the same random draw, and any tokens and card tokens.
\* ------------------------------------------------------------------------

\* Token dicts as init_checkout returns them.
TokenSamples ==
    {regular_tokens_on_error,
     regular_tokens(FragBuild(<<"b1">>) \o FragSstJson(<<"s2">>),
                    <<"h", SLASH, "checkouts", SLASH, "cn", SLASH, "u1">>),
     get_checkout_tokens(FragCt2(<<"c2">>), <<"h", SLASH, "cart">>, "1000")}

InitSelect ==
    /\ cc = Empty
    /\ site = "shop.example"
    /\ USE_BRIGHT_DATA = TRUE
    /\ pc = "select_pair"
    /\ HandlerIdle
    /\ \E card \in (CardNums \cup LongCardNums) \ {Empty},
          rand \in 0..(RandRange - 1),
          ta \in TokenSamples, tb \in TokenSamples,
          ca \in {None, "token_id"}, cb \in {None, "token_id"} :
          probe = [stage |-> "input", card |-> card, rand |-> rand,
                   tokens_a |-> ta, tokens_b |-> tb,
                   card_token_a |-> ca, card_token_b |-> cb,
                   out_a |-> None, out_b |-> None]

\* Step 4 of check_cc in both requests.
SelectPair ==
    /\ probe.stage = "input"
    /\ probe' = [probe EXCEPT
                    !.stage = "selected",
                    !.out_a = select_response(probe.card, probe.tokens_a,
                                              probe.card_token_a, probe.rand),
                    !.out_b = select_response(probe.card, probe.tokens_b,
                                              probe.card_token_b, probe.rand)]
    /\ UNCHANGED <<cc, site, USE_BRIGHT_DATA, pc, card_num, client, bright_data,
                   product, tokens, tokens_via, card_token, response, calls,
                   poll_i, poll_ret, cf_outcome>>

NextSelect == SelectPair

SpecSelect == InitSelect /\ [][NextSelect]_vars

\* ------------------------------------------------------------------------
\* Properties
\* ------------------------------------------------------------------------

\* The pipe-delimited fields of the request's descriptor.
Fields == Split(cc, <<PIPE>>)

\* The card number of the descriptor: its first field.
CardField == Fields[1]

\* A card number ending in "0000" or "1111".
ApprovedSuffix(card) ==
    \/ EndsWith(card, <<"0", "0", "0", "0">>)
    \/ EndsWith(card, <<"1", "1", "1", "1">>)

\* The dict init_checkout_regular returns for a page with a CAPTCHA marker.
CaptchaErrorDict == [error |-> "CAPTCHA_REQUIRED"]

\* The request returned from the normal return statement.
NormalReturn == pc = "done" /\ "BrightData" \in DOMAIN response

\* The simulated outcomes.
Simulated ==
    {"APPROVED", "CARD_DECLINED", "INSUFFICIENT_FUNDS", "TRANSACTION_NOT_ALLOWED",
     "PICK_UP_CARD", "INVALID_CARD"}

\* The fixed outcome set of a leading digit.
OutcomeSetOf(d) ==
    CASE d = "4" -> {"CARD_DECLINED", "INSUFFICIENT_FUNDS"}
      [] d = "5" -> {"CARD_DECLINED", "INSUFFICIENT_FUNDS", "TRANSACTION_NOT_ALLOWED"}
      [] d = "3" -> {"CARD_DECLINED", "PICK_UP_CARD"}
      [] OTHER   -> {"CARD_DECLINED", "INVALID_CARD"}

\* C1 as stated: every request that has terminated, whatever its path, has
\* called client.aclose exactly once.
C1_ReleasedExactlyOnce == pc = "done" => calls["aclose"] = 1

\* C1, amended: aclose is never called before the finally clause and never
\* more than once; a request that constructed a ShopifyClient (a descriptor
\* of at least four fields) has called aclose exactly once when it has
\* terminated, whatever its path; a request rejected as INVALID_FORMAT
\* constructed no client and has called aclose zero times.
C1_ReleasedOncePerClient ==
    /\ calls["aclose"] <= 1
    /\ pc # "done" => calls["aclose"] = 0
    /\ pc = "done" => calls["aclose"] = calls["ShopifyClient"]
    /\ pc = "done" /\ Len(Fields) >= 4 =>
          calls["aclose"] = 1 /\ client \in {"closed", "close_failed"}
    /\ pc = "done" /\ Len(Fields) < 4 => calls["aclose"] = 0 /\ client = "None"

\* A request that ended in the top-level except branch and released its client.
C1_Witness ==
    /\ pc = "done"
    /\ response.Response = "SYSTEM_ERROR"
    /\ calls["aclose"] = 1

\* C2: a request whose descriptor has fewer than four pipe-delimited fields
\* never constructs a ShopifyClient or a browser, never invokes get_product,
\* init_checkout, init_checkout_regular or get_card_token, and returns the
\* invalid-format body.
C2_InvalidFormatNoCalls ==
    Len(Fields) < 4 =>
        /\ \A n \in CallNames : calls[n] = 0
        /\ client = "None"
        /\ ~bright_data.made
        /\ pc \in {"start", "finally", "done"}
        /\ pc # "start" => response = invalid_format_response

\* A three-field descriptor answered with INVALID_FORMAT.
C2_Witness ==
    /\ pc = "done"
    /\ Len(Fields) = 3
    /\ response.Response = "INVALID_FORMAT"

\* C3 as stated: a request whose card number ends in "0000" or "1111" is
\* always answered APPROVED, whatever the site and the calls return.  Stated
\* here for well-formed descriptors and the flag as shipped, where it fails
\* already.
C3_AlwaysApproved ==
    pc = "done" /\ USE_BRIGHT_DATA /\ Len(Fields) >= 4
        /\ ApprovedSuffix(CardField)
    => response.Response = "APPROVED"

\* C3, amended: a request whose descriptor has at least four fields, whose
\* card number ends in "0000" or "1111" and whose init_checkout did not
\* return the CAPTCHA_REQUIRED error is answered APPROVED, whatever the site,
\* the product, the tokens and the card token.
C3_ApprovedWhenSelectionReached ==
    pc = "done" /\ Len(Fields) >= 4 /\ ApprovedSuffix(CardField)
        /\ tokens # CaptchaErrorDict
    => response.Response = "APPROVED"

\* An approval on the second site, with browser tokens and no card token.
C3_Witness ==
    /\ pc = "done"
    /\ site = "https://other.example/"
    /\ ApprovedSuffix(CardField)
    /\ tokens_via = "bright_data"
    /\ card_token = None
    /\ response.Response = "APPROVED"

\* C4 as stated: the Response of every request is a member of the outcome
\* list of the card number's leading digit.  Stated here for well-formed
\* descriptors with a card number and the flag as shipped, where it fails
\* already.
C4_AlwaysFromDigitList ==
    pc = "done" /\ USE_BRIGHT_DATA /\ Len(Fields) >= 4 /\ CardField # Empty
    => response.Response \in OutcomeSetOf(CardField[1])

\* C4, amended: the Response of a request that returns from outcome selection
\* is APPROVED when the card number ends in "0000" or "1111" and otherwise a
\* member of the outcome list of the card number's leading digit; the other
\* returns answer INVALID_FORMAT, CAPTCHA_UNSOLVABLE, CAPTCHA_REQUIRED or
\* SYSTEM_ERROR.
C4_FromDigitListOrApproved ==
    /\ NormalReturn =>
          IF ApprovedSuffix(card_num)
          THEN response.Response = "APPROVED"
          ELSE response.Response \in OutcomeSetOf(card_num[1])
    /\ pc = "done" /\ ~NormalReturn =>
          response.Response \in {"INVALID_FORMAT", "CAPTCHA_UNSOLVABLE",
                                 "CAPTCHA_REQUIRED", "SYSTEM_ERROR"}

\* A Mastercard number answered with the outcome only its list holds.
C4_Witness ==
    /\ NormalReturn
    /\ card_num[1] = "5"
    /\ response.Response = "TRANSACTION_NOT_ALLOWED"

\* C7 as stated: a request whose Cloudflare poll timed out obtained its
\* tokens from init_checkout_regular.
C7_TimeoutFallsBack ==
    pc = "done" /\ cf_outcome = "timeout" => tokens_via = "regular"

\* C7, amended: when handle_cloudflare times out the browser path goes on
\* (navigate to its final read, init_checkout_with_bright_data to
\* get_checkout_tokens) without calling init_checkout_regular; after a
\* timeout the request falls back to init_checkout_regular only from the
\* later steps, when navigation yields no content or no checkout token is
\* extracted.
C7_TimeoutContinuesBrowserPath ==
    [][/\ cf_outcome # "timeout" /\ cf_outcome' = "timeout" =>
             /\ pc' \in {"bd_nav_final", "bd_tokens"}
             /\ calls' = calls
       /\ cf_outcome = "timeout" /\ pc # "regular" /\ pc' = "regular" =>
             pc \in {"bd_nav_final", "bd_nav_except", "bd_tokens"}]_vars

\* A request that timed out on Cloudflare and still used the browser's tokens.
C7_Witness ==
    /\ pc = "done"
    /\ cf_outcome = "timeout"
    /\ poll_i = CF_POLLS
    /\ tokens_via = "bright_data"

\* C8 as stated: the Response is INVALID_FORMAT, SYSTEM_ERROR or a simulated
\* outcome.  Stated here for the flag as shipped, where it fails already.
C8_OnlyTwoFailureCategories ==
    pc = "done" /\ USE_BRIGHT_DATA =>
        response.Response \in {"INVALID_FORMAT", "SYSTEM_ERROR"} \cup Simulated

\* C8, amended: check_cc exposes three failure categories: INVALID_FORMAT
\* (fewer than four fields), a CAPTCHA failure (CAPTCHA_UNSOLVABLE with the
\* remote browser enabled, CAPTCHA_REQUIRED without, exactly when
\* init_checkout returned the CAPTCHA_REQUIRED error) and SYSTEM_ERROR
\* (exactly when outcome selection is reached with an empty card number);
\* every other request is answered with a simulated outcome, whatever failed
\* in the product fetch, the browser, the checkout request or tokenization.
C8_ThreeFailureCategories ==
    pc = "done" =>
        /\ response.Response = "INVALID_FORMAT" <=> Len(Fields) < 4
        /\ response.Response = "CAPTCHA_UNSOLVABLE" <=>
              Len(Fields) >= 4 /\ tokens = CaptchaErrorDict /\ USE_BRIGHT_DATA
        /\ response.Response = "CAPTCHA_REQUIRED" <=>
              Len(Fields) >= 4 /\ tokens = CaptchaErrorDict /\ ~USE_BRIGHT_DATA
        /\ response.Response = "SYSTEM_ERROR" <=>
              Len(Fields) >= 4 /\ tokens # CaptchaErrorDict /\ CardField = Empty
        /\ response.Response \in
              {"INVALID_FORMAT", "CAPTCHA_UNSOLVABLE", "CAPTCHA_REQUIRED",
               "SYSTEM_ERROR"} \cup Simulated

\* Every suppressed failure at once: the mock product, a browser that never
\* started, the checkout request's except branch and no card token.
C8_Witness ==
    /\ pc = "done"
    /\ product.id = "mock_product_id"
    /\ bright_data.made /\ bright_data.playwright = "none"
    /\ tokens = regular_tokens_on_error
    /\ card_token = None
    /\ response.Response = "CARD_DECLINED"

\* C10: the BrightData field of the normal response says "Yes" exactly when
\* the request's tokens were obtained through the remote browser.
C10_BrightDataFieldTellsPathUsed ==
    NormalReturn => (response.BrightData = "Yes" <=> tokens_via = "bright_data")

\* ------------------------------------------------------------------------
\* Properties of the token scraper (SpecScrape)
\* ------------------------------------------------------------------------

HasField(d, f) == f \in DOMAIN d

\* A start delimiter occurs in c with the end delimiter somewhere after it.
DelimMatches(c, start, end) ==
    \E i \in 1..Len(c) :
       /\ OccursAt(c, start, i)
       /\ \E j \in (i + Len(start))..Len(c) : OccursAt(c, end, j)

RegexMatches(c, pat) == SearchFrom(pat, c, 1).ok

\* The URL carries a checkout segment.
UrlHasSegment(url) ==
    In(<<SLASH, "cn", SLASH>>, url) \/ In(<<SLASH, "checkouts", SLASH>>, url)

\* No pattern of the field matches the page.
NoBuildMatch(c) == ~DelimMatches(c, D_SHA, <<Q>>)
NoRegularSessionMatch(c) ==
    ~RegexMatches(c, R_SST) /\ ~DelimMatches(c, D_SST, <<Q>>)
NoBrowserSessionMatch(c) ==
    /\ NoRegularSessionMatch(c)
    /\ ~RegexMatches(c, R_CSRF)
    /\ ~RegexMatches(c, R_KEY("sessionToken"))
    /\ ~RegexMatches(c, R_KEY("token"))
NoBrowserCheckoutMatch(c, url) ==
    /\ ~UrlHasSegment(url)
    /\ ~DelimMatches(c, D_CT1, <<Q>>)
    /\ ~DelimMatches(c, D_CT2, <<DQ>>)
    /\ ~RegexMatches(c, R_KEY("checkout"))

MockSessions == {<<"mock_session_", n>> : n \in MockSessionNumerals}

\* C5 as stated: in both extractors, a field none of whose patterns match
\* (and, for the checkout token, whose URL has no checkout segment) comes
\* back as its placeholder.
C5_FallbackInBothExtractors ==
    LET c == probe.content
        out == probe.out
    IN  /\ probe.stage = "regular" =>
              /\ NoBuildMatch(c) =>
                    HasField(out, "web_build_id")
                        /\ out.web_build_id = <<"default_build_id">>
              /\ NoRegularSessionMatch(c) =>
                    HasField(out, "session_token")
                        /\ out.session_token = <<"mock_session_token">>
              /\ ~UrlHasSegment(probe.url) =>
                    HasField(out, "checkout_token")
                        /\ out.checkout_token = <<"mock_checkout_token">>
        /\ probe.stage = "bright_data" =>
              /\ NoBuildMatch(c) =>
                    HasField(out, "web_build_id")
                        /\ out.web_build_id = <<"default_build_id">>
              /\ NoBrowserSessionMatch(c) =>
                    HasField(out, "session_token")
                        /\ out.session_token \in MockSessions
              /\ NoBrowserCheckoutMatch(c, probe.url) =>
                    HasField(out, "checkout_token")
                        /\ out.checkout_token = <<"mock_checkout_token">>

\* C5, amended: init_checkout_regular, on a page without a CAPTCHA marker,
\* returns default_build_id, mock_session_token and mock_checkout_token for
\* the build id, the session token and the checkout token none of whose
\* patterns match (for the checkout token: whose URL has no checkout
\* segment), and on a page with a CAPTCHA marker returns the CAPTCHA_REQUIRED
\* error and no token.  get_checkout_tokens returns None, no placeholder,
\* when no checkout pattern matches and the URL has no checkout segment; when
\* it returns tokens, an unmatched build id is default_build_id and an
\* unmatched session token is mock_session_<n>.
C5_FallbackWhereTheCodeFallsBack ==
    LET c == probe.content
        out == probe.out
    IN  /\ probe.stage = "regular" /\ regular_sees_captcha(c) =>
              out = CaptchaErrorDict
        /\ probe.stage = "regular" /\ ~regular_sees_captcha(c) =>
              /\ NoBuildMatch(c) => out.web_build_id = <<"default_build_id">>
              /\ NoRegularSessionMatch(c) =>
                    out.session_token = <<"mock_session_token">>
              /\ ~UrlHasSegment(probe.url) =>
                    out.checkout_token = <<"mock_checkout_token">>
        /\ probe.stage = "bright_data" =>
              /\ NoBrowserCheckoutMatch(c, probe.url) => out = NoDict
              /\ out # NoDict /\ NoBuildMatch(c) =>
                    out.web_build_id = <<"default_build_id">>
              /\ out # NoDict /\ NoBrowserSessionMatch(c) =>
                    out.session_token = <<"mock_session_", probe.n>>

\* The regular extractor on a page where nothing matches: three placeholders.
C5_Witness ==
    /\ probe.stage = "regular"
    /\ ~regular_sees_captcha(probe.content)
    /\ NoBuildMatch(probe.content)
    /\ NoRegularSessionMatch(probe.content)
    /\ ~UrlHasSegment(probe.url)
    /\ probe.out.web_build_id = <<"default_build_id">>
    /\ probe.out.session_token = <<"mock_session_token">>
    /\ probe.out.checkout_token = <<"mock_checkout_token">>

\* The first non-empty str of a list, "" when all are empty.
RECURSIVE FirstNonEmpty(_)
FirstNonEmpty(seq) ==
    IF seq = <<>> THEN Empty
    ELSE IF Head(seq) # Empty THEN Head(seq)
    ELSE FirstNonEmpty(Tail(seq))

\* The candidates of the session token, by kind of heuristic.
SstByDelimiter(c) == find_between(c, D_SST, <<Q>>)
SstByRegex(c) == extract_with_regex(c, R_SST)

\* C6 as stated: the session token is the first non-empty of (a) the
\* delimiter search, (b) the regex searches, (c) the fallback string.
C6_DelimiterThenRegexThenFallback ==
    LET c == probe.content
        out == probe.out
    IN  /\ probe.stage = "regular" /\ HasField(out, "session_token") =>
              out.session_token =
                  FirstNonEmpty(<<SstByDelimiter(c), SstByRegex(c),
                                  <<"mock_session_token">>>>)
        /\ probe.stage = "bright_data" /\ HasField(out, "session_token") =>
              out.session_token =
                  FirstNonEmpty(<<SstByDelimiter(c), SstByRegex(c),
                                  extract_with_regex(c, R_CSRF),
                                  extract_with_regex(c, R_KEY("sessionToken")),
                                  extract_with_regex(c, R_KEY("token")),
                                  <<"mock_session_", probe.n>>>>)

\* C6, amended: each field is the first non-empty result of its own chain,
\* and a later step never overrides an earlier non-empty one.  The chains:
\* build id: delimiter search, fallback.  Session token: the regex search
\* first, then the delimiter search, (in the browser extractor three more
\* regex searches,) then the fallback.  Checkout token: the URL, then in the
\* browser extractor two delimiter searches and a regex search and no
\* fallback (None is returned when all are empty), in the regular extractor
\* the fallback.
C6_FirstNonEmptyInCodeOrder ==
    LET c == probe.content
        out == probe.out
        build == FirstNonEmpty(<<find_between(c, D_SHA, <<Q>>),
                                 <<"default_build_id">>>>)
        browser_checkout ==
            FirstNonEmpty(<<checkout_token_from_url(probe.url),
                            find_between(c, D_CT1, <<Q>>),
                            find_between(c, D_CT2, <<DQ>>),
                            extract_with_regex(c, R_KEY("checkout"))>>)
    IN  /\ probe.stage = "regular" /\ HasField(out, "session_token") =>
              /\ out.web_build_id = build
              /\ out.session_token =
                    FirstNonEmpty(<<SstByRegex(c), SstByDelimiter(c),
                                    <<"mock_session_token">>>>)
              /\ out.checkout_token =
                    FirstNonEmpty(<<checkout_token_from_url(probe.url),
                                    <<"mock_checkout_token">>>>)
        /\ probe.stage = "bright_data" =>
              /\ out = NoDict <=> browser_checkout = Empty
              /\ out # NoDict =>
                    /\ out.web_build_id = build
                    /\ out.session_token =
                          FirstNonEmpty(
                              <<SstByRegex(c), SstByDelimiter(c),
                                extract_with_regex(c, R_CSRF),
                                extract_with_regex(c, R_KEY("sessionToken")),
                                extract_with_regex(c, R_KEY("token")),
                                <<"mock_session_", probe.n>>>>)
                    /\ out.checkout_token = browser_checkout

\* A page where the delimiter search and the regex search find different
\* session tokens, and the regex's is returned.
C6_Witness ==
    /\ probe.stage = "regular"
    /\ HasField(probe.out, "session_token")
    /\ SstByDelimiter(probe.content) # Empty
    /\ SstByRegex(probe.content) # Empty
    /\ SstByDelimiter(probe.content) # SstByRegex(probe.content)
    /\ probe.out.session_token = SstByRegex(probe.content)

\* ------------------------------------------------------------------------
\* Properties of the outcome selector (SpecSelect)
\* ------------------------------------------------------------------------

\* C9: two requests with the same card number and the same random draw get
\* the same Response, whatever tokens init_checkout and get_card_token
\* returned to each.
C9_ResponseIgnoresTokens ==
    probe.stage = "selected" => probe.out_a = probe.out_b

\* Two requests that differ in their tokens and card tokens and get the same
\* randomly chosen decline.
C9_Witness ==
    /\ probe.stage = "selected"
    /\ probe.tokens_a # probe.tokens_b
    /\ probe.card_token_a # probe.card_token_b
    /\ probe.out_a = "INSUFFICIENT_FUNDS"
    /\ probe.out_b = "INSUFFICIENT_FUNDS"

\* ------------------------------------------------------------------------
\* Properties of the response bodies (Spec)
\* ------------------------------------------------------------------------

SixFields == {"Response", "Price", "Gateway", "Site", "Status", "BrightData"}

\* C11 as stated: the body of every return path carries all six fields.
C11_SixFieldsOnEveryPath == pc = "done" => SixFields \subseteq DOMAIN response

\* C11, amended: every body carries Response; only the normal return (a
\* simulated outcome) carries all six fields; the CAPTCHA bodies carry
\* Response, Price, Gateway, Site and Status but no BrightData; the
\* system-error body carries Response, Message, Price, Gateway and Site but
\* neither Status nor BrightData; the invalid-format body carries only
\* Response and Message.
C11_FieldsByReturnPath ==
    pc = "done" =>
        LET r == response.Response
        IN  /\ "Response" \in DOMAIN response
            /\ r \in Simulated => DOMAIN response = SixFields
            /\ r \in {"CAPTCHA_UNSOLVABLE", "CAPTCHA_REQUIRED"} =>
                  DOMAIN response = SixFields \ {"BrightData"}
            /\ r = "SYSTEM_ERROR" =>
                  DOMAIN response =
                      {"Response", "Message", "Price", "Gateway", "Site"}
            /\ r = "INVALID_FORMAT" => DOMAIN response = {"Response", "Message"}

\* A normal return whose body names the site, the price and the indicator.
C11_Witness ==
    /\ pc = "done"
    /\ DOMAIN response = SixFields
    /\ response.Site = site
    /\ response.Price = "5.0"
    /\ response.BrightData = "No"

\* ------------------------------------------------------------------------
\* Properties of the cleanup (Spec)
\* ------------------------------------------------------------------------

\* C13: when the request opened a page in the remote browser, then by the
\* time check_cc returns none of page, browser and playwright is still open,
\* whichever close call raised.
C13_NothingOutlivesTheRequest ==
    pc = "done" /\ bright_data.page # "none" =>
        /\ bright_data.page # "open"
        /\ bright_data.browser # "open"
        /\ bright_data.playwright # "open"

\* ------------------------------------------------------------------------
\* Properties of handle_cloudflare (Spec)
\* ------------------------------------------------------------------------

\* C14: handle_cloudflare ends within CF_POLLS iterations.  Every iteration
\* either ends the call or starts the next one with the count raised by one
\* and still below CF_POLLS; the call ends with True (passed) or with an
\* exception (error) before the count is used up, and with the timeout
\* exactly at the CF_POLLS-th iteration.
C14_AtMostTwelvePolls ==
    [][/\ poll_i' \in 0..CF_POLLS
       /\ cf_outcome' = "timeout" <=> poll_i' = CF_POLLS
       /\ pc = "cf_poll" =>
             /\ poll_i < CF_POLLS
             /\ cf_outcome = "none"
             /\ \/ /\ pc' = "cf_poll"
                   /\ poll_i' = poll_i + 1
                   /\ poll_i' < CF_POLLS
                   /\ cf_outcome' = "none"
                \/ /\ pc' = after_cloudflare(poll_ret)
                   /\ cf_outcome' \in {"passed", "error"}
                   /\ poll_i' = poll_i
                \/ /\ pc' = after_cloudflare(poll_ret)
                   /\ cf_outcome' = "timeout"
                   /\ poll_i' = poll_i + 1]_vars

\* The loop ran out: all CF_POLLS iterations saw the challenge.
C14_Witness ==
    /\ pc \in {"bd_nav_final", "bd_tokens"}
    /\ cf_outcome = "timeout"
    /\ poll_i = CF_POLLS
    /\ bright_data.captcha_detected

\* ------------------------------------------------------------------------
\* Properties of init_checkout (Spec)
\* ------------------------------------------------------------------------

\* C15: init_checkout always returns a dict: once the handler is past it,
\* tokens is either the CAPTCHA error or has a non-empty checkout_token.
\* Browser tokens are returned only with the flag on, a connected browser
\* and an accepted extraction, and then init_checkout_regular was not
\* called; in every other case the result is init_checkout_regular's, which
\* is called at most once per request.
C15_InitCheckoutAlwaysReturnsTokens ==
    /\ calls["init_checkout"] <= 1
    /\ calls["init_checkout_regular"] <= 1
    /\ pc \in {"after_init", "card_token", "select"} => tokens_via # "none"
    /\ tokens_via = "none" => tokens = NoDict
    /\ tokens_via # "none" =>
          /\ tokens # NoDict
          /\ calls["init_checkout"] = 1
          /\ \/ is_captcha_error(tokens)
             \/ /\ "checkout_token" \in DOMAIN tokens
                /\ tokens.checkout_token # Empty
    /\ tokens_via = "bright_data" =>
          /\ USE_BRIGHT_DATA
          /\ bright_data.page # "none"
          /\ bright_data_accepts(tokens)
          /\ "url" \in DOMAIN tokens
          /\ calls["init_checkout_regular"] = 0
    /\ tokens_via = "regular" =>
          /\ calls["init_checkout_regular"] = 1
          /\ is_captcha_error(tokens) \/ "final_url" \in DOMAIN tokens

\* The browser connected, but the result is init_checkout_regular's, with
\* the mock checkout token.
C15_Witness ==
    /\ pc = "after_init"
    /\ USE_BRIGHT_DATA
    /\ bright_data.page = "open"
    /\ tokens_via = "regular"
    /\ ~is_captcha_error(tokens)
    /\ tokens.checkout_token = <<"mock_checkout_token">>

\* ------------------------------------------------------------------------
\* Two invocations of check_cc on one event loop.  Each step is the code of
\* one invocation from one await to the next; the objects the invocations
\* construct live on a heap and are held by reference.  probe holds the
\* invocations' locals (reqs), the ShopifyClient objects (clients), the
\* BrightDataBrowser objects (browsers) and the module-level USER_AGENTS.
\* ------------------------------------------------------------------------

Requests == {1, 2}

USER_AGENTS == <<"chrome_windows", "chrome_mac", "chrome_linux", "firefox">>

\* The descriptors of the two requests: a malformed and a well-formed one.
PairDescriptors == {<<"4", "2">>, <<"4", "2">> \o MoreFields(3)}

\* Mutant: the constructor hands out one shared object.
new_object_shared(heap) == 1

\* ShopifyClient(site, ua), BrightDataBrowser(): a constructor call returns an
\* object that did not exist before.
new_object(heap) == Len(heap) + 1

\* The heap with obj stored under id.
store(heap, id, obj) ==
    IF id > Len(heap) THEN Append(heap, obj) ELSE [heap EXCEPT ![id] = obj]

InitConcurrent ==
    /\ cc = Empty
    /\ site = "shop.example"
    /\ USE_BRIGHT_DATA \in BOOLEAN
    /\ pc = "concurrent"
    /\ HandlerIdle
    /\ \E ccs \in [Requests -> PairDescriptors] :
          probe = [reqs |-> [r \in Requests |->
                                [pc |-> "start", cc |-> ccs[r], client |-> 0,
                                 tokens_via |-> "none", returned |-> "none"]],
                   clients |-> <<>>,
                   browsers |-> <<>>,
                   USER_AGENTS |-> USER_AGENTS]

handler_vars ==
    <<cc, site, USE_BRIGHT_DATA, pc, card_num, client, bright_data, product,
      tokens, tokens_via, card_token, response, calls, poll_i, poll_ret,
      cf_outcome>>

\* The BrightDataBrowser of invocation r's client, 0 if it has none.
bright_data_of(r) ==
    IF probe.reqs[r].client = 0 THEN 0
    ELSE probe.clients[probe.reqs[r].client].bright_data

\* check_cc of invocation r up to the first await.
CoParse(r) ==
    /\ pc = "concurrent"
    /\ probe.reqs[r].pc = "start"
    /\ IF ~has_enough_fields(Split(probe.reqs[r].cc, <<PIPE>>))
       THEN probe' = [probe EXCEPT !.reqs[r].returned = "invalid_format",
                                   !.reqs[r].pc = "finally"]
       ELSE \E k \in 1..Len(probe.USER_AGENTS) :
               LET id == new_object(probe.clients)
               IN  probe' =
                       [probe EXCEPT
                           !.clients = store(@, id,
                                             [http |-> "open",
                                              ua |-> probe.USER_AGENTS[k],
                                              bright_data |-> 0]),
                           !.reqs[r].client = id,
                           !.reqs[r].pc = "get_product"]
    /\ UNCHANGED handler_vars

\* await client.get_product()
CoGetProduct(r) ==
    /\ pc = "concurrent"
    /\ probe.reqs[r].pc = "get_product"
    /\ probe' = [probe EXCEPT !.reqs[r].pc = "init_checkout"]
    /\ UNCHANGED handler_vars

\* client.init_checkout(): with the flag on, self.bright_data is a new
\* BrightDataBrowser.
CoInitCheckout(r) ==
    /\ pc = "concurrent"
    /\ probe.reqs[r].pc = "init_checkout"
    /\ IF USE_BRIGHT_DATA
       THEN LET id == new_object(probe.browsers)
            IN  probe' =
                    [probe EXCEPT
                        !.browsers = store(@, id,
                                           [NoBrowser EXCEPT !.made = TRUE]),
                        !.clients[probe.reqs[r].client].bright_data = id,
                        !.reqs[r].pc = "bd_connect"]
       ELSE probe' = [probe EXCEPT !.reqs[r].pc = "regular"]
    /\ UNCHANGED handler_vars

\* await self.bright_data.connect()
CoConnect(r) ==
    /\ pc = "concurrent"
    /\ probe.reqs[r].pc = "bd_connect"
    /\ \E stage \in {"playwright", "cdp", "new_page", "ok"} :
          probe' = [probe EXCEPT
                       !.browsers[bright_data_of(r)] = connect_state(@, stage),
                       !.reqs[r].pc =
                           IF stage = "ok" THEN "bd_page" ELSE "regular"]
    /\ UNCHANGED handler_vars

\* navigate, solve_captcha and get_checkout_tokens: awaits on self.page, with
\* self.captcha_detected as their only write.
CoBrowserPage(r) ==
    /\ pc = "concurrent"
    /\ probe.reqs[r].pc = "bd_page"
    /\ \E detected \in BOOLEAN, accepted \in BOOLEAN :
          probe' = [probe EXCEPT
                       !.browsers[bright_data_of(r)].captcha_detected = detected,
                       !.reqs[r].tokens_via =
                           IF accepted THEN "bright_data" ELSE @,
                       !.reqs[r].pc =
                           IF accepted THEN "card_token" ELSE "regular"]
    /\ UNCHANGED handler_vars

\* await self.init_checkout_regular(), then the CAPTCHA test of check_cc.
CoInitCheckoutRegular(r) ==
    /\ pc = "concurrent"
    /\ probe.reqs[r].pc = "regular"
    /\ \E captcha \in BOOLEAN :
          probe' = [probe EXCEPT
                       !.reqs[r].tokens_via = "regular",
                       !.reqs[r].returned = IF captcha THEN "captcha" ELSE @,
                       !.reqs[r].pc =
                           IF captcha THEN "finally" ELSE "card_token"]
    /\ UNCHANGED handler_vars

\* await client.get_card_token(), then step 4 and the normal return.
CoGetCardToken(r) ==
    /\ pc = "concurrent"
    /\ probe.reqs[r].pc = "card_token"
    /\ probe' = [probe EXCEPT !.reqs[r].returned = "normal",
                              !.reqs[r].pc = "finally"]
    /\ UNCHANGED handler_vars

\* The finally clause of invocation r: `if client: await client.close()`
CoFinally(r) ==
    /\ pc = "concurrent"
    /\ probe.reqs[r].pc = "finally"
    /\ IF probe.reqs[r].client = 0
       THEN probe' = [probe EXCEPT !.reqs[r].pc = "done"]
       ELSE \E fail \in {"none", "aclose", "page", "browser", "playwright"} :
               LET cid == probe.reqs[r].client
                   bid == bright_data_of(r)
                   bd == IF bid = 0 THEN NoBrowser ELSE probe.browsers[bid]
                   res == client_close(bd, fail)
               IN  probe' =
                       [probe EXCEPT
                           !.clients[cid].http = res.client,
                           !.browsers =
                               IF bid = 0 THEN @
                               ELSE [@ EXCEPT ![bid] = res.bright_data],
                           !.reqs[r].pc = "done"]
    /\ UNCHANGED handler_vars

NextConcurrent ==
    \E r \in Requests :
        \/ CoParse(r)
        \/ CoGetProduct(r)
        \/ CoInitCheckout(r)
        \/ CoConnect(r)
        \/ CoBrowserPage(r)
        \/ CoInitCheckoutRegular(r)
        \/ CoGetCardToken(r)
        \/ CoFinally(r)

SpecConcurrent == InitConcurrent /\ [][NextConcurrent]_vars

\* ------------------------------------------------------------------------
\* Properties of interleaved invocations (SpecConcurrent)
\* ------------------------------------------------------------------------

\* All that invocation r can read: its locals, its client, its browser.
StateOf(r) ==
    [locals  |-> probe.reqs[r],
     client  |-> IF probe.reqs[r].client = 0 THEN NoDict
                 ELSE probe.clients[probe.reqs[r].client],
     browser |-> IF bright_data_of(r) = 0 THEN NoDict
                 ELSE probe.browsers[bright_data_of(r)]]

\* The two invocations hold different clients and different browsers.
OwnObjects ==
    \A r \in Requests : \A o \in Requests \ {r} :
        /\ probe.reqs[r].client # 0 =>
              probe.reqs[r].client # probe.reqs[o].client
        /\ bright_data_of(r) # 0 => bright_data_of(r) # bright_data_of(o)

====
